---- MODULE Spec2Model ----
(***************************************************************************)
(* Model of src/eggholderEA_div.py: the evolutionary algorithm eggholderEA *)
(* (k-tournament selection on shared fitness, blend crossover, Gaussian    *)
(* mutation, greedy fitness-sharing elimination) and its loop optimize.    *)
(*                                                                         *)
(* Arithmetic.  The program works on floats; the model works on integers:  *)
(*   - a coordinate is an integer of 0..intMax (a sample of [0, intMax]);  *)
(*   - sigma is held in tenths (sigma = 3*intMax stands for 0.3*intMax);   *)
(*   - alpha and the uniform draws of mutation are held in hundredths;     *)
(*   - a niche count beta and a shared fitness g are fixed-point numbers   *)
(*     with Scale units to 1, rounded down.                                *)
(* Sequences are 1-based, the program's arrays 0-based.                    *)
(*                                                                         *)
(* State.  The variables are the attributes of the solver and the locals   *)
(* of optimize, selection and elimination.  A local that is read no more   *)
(* is emptied (selected and ri after crossover, offspring after the stack  *)
(* of line 39, elimination's locals when the survivors are taken over).    *)
(* The loops of selection and elimination take one step per iteration.     *)
(* pool, origin and slots follow the rows of the pool through np.delete.   *)
(***************************************************************************)
EXTENDS Integers, Sequences, FiniteSets

\* ---------------------------------------------------------------- bounds
\* The program's sizes scaled down: intMax (500 in __init__), numIters (20)
\* and lambdaa (100; held at 2, the state space of optimize grows too fast
\* in it to raise it together with intMax).  MaxK and MaxPool bound the
\* arguments of the stand-alone calls, Scale is the fixed-point precision.
intMax == 1
lambdaa == 2
numIters == 2
MaxK == 3
Scale == 10
MaxPool == 3

mu == lambdaa * 2

VARIABLES
    pc,                \* position in optimize / elimination
    k, alpha, sigma,   \* configuration attributes of the solver
    objf,              \* the injected objective, by name
    population, selected, offspring, joinedPopulation,
    iter,              \* loop variable i of optimize
    ii,                \* loop variable ii of selection
    ri,                \* candidate indices of the last tournament
    keep, survivors,   \* elimination's parameter and result array
    ei,                \* loop variable i of elimination
    pool, origin, slots, \* the pool as passed; input slot of each remaining
                         \* row; input slot of each survivor
    reports,           \* number of calls of plotFun
    xi, out            \* index argument and result of a stand-alone call

vars == <<pc, k, alpha, sigma, objf, population, selected, offspring,
          joinedPopulation, iter, ii, ri, keep, survivors, ei, pool, origin,
          slots, reports, xi, out>>

\* ------------------------------------------------------------ sample sets
Coord == 0..intMax
Point == Coord \X Coord
ObjNames == {"plane", "tilt"}
\* alpha: 0 and the program's 0.05; uniform draws of [0, 1): 0, 0.05, 0.5
AlphaSet == {0, 5}
UDraws == {0, 5, 50}
\* values of 3 * rand - 1, which lies in [-1, 2)
WeightSet == {-1, 0, 1}
\* values of 10 * randn
NoiseSet == {-1, 0, 1}
\* niche radius: the program's 0.3 * intMax, and 1.5 * intMax, under which
\* grid points at a distance above 0 share a niche
SigmaSet == {3 * intMax, 15 * intMax}

zeros(n) == [j \in 1..n |-> <<0, 0>>]

\* -------------------------------------------------------------- helpers
Min2(a, b) == IF a < b THEN a ELSE b
Max2(a, b) == IF a > b THEN a ELSE b
clip(v, lo, hi) == Min2(Max2(v, lo), hi)

\* integer square roots of 0..Scale*Scale (np.sqrt behind ** 0.5 and norm)
IsqrtTable ==
    [n \in 0..(Scale * Scale) |->
        CHOOSE r \in 0..Scale : r * r <= n /\ (r + 1) * (r + 1) > n]

Isqrt(n) == IsqrtTable[n]

RECURSIVE SumSeq(_)
SumSeq(s) == IF s = <<>> THEN 0 ELSE Head(s) + SumSeq(Tail(s))

MinOf(S) == CHOOSE m \in S : \A x \in S : m <= x

\* mutant: the result of np.delete is dropped, the pool stays as it was
deleteDropped(s, x) == s

\* mutant: the row after the chosen one is removed
deleteNextRow(s, x) ==
    LET y == IF x < Len(s) THEN x + 1 ELSE 1
    IN  [j \in 1..(Len(s) - 1) |-> IF j < y THEN s[j] ELSE s[j + 1]]

\* row x of s removed (np.delete(s, x, axis=0))
delete(s, x) == [j \in 1..(Len(s) - 1) |-> IF j < x THEN s[j] ELSE s[j + 1]]

\* ------------------------------------------------------------- objective
\* the objective is handed in by the caller (self.objf = fun); two stand
\* in for it: "plane" is above 0 everywhere with its minimum at the origin,
\* "tilt" takes values below 0, 0 and above 0
Objective(p) ==
    IF objf = "plane" THEN p[1] + p[2] + 2 ELSE p[1] - 3 * p[2]

\* -------------------------------------------------------- shared fitness
\* squared Euclidean distance (calc_distance squares to this)
calc_distance2(p, q) ==
    (p[1] - q[1]) * (p[1] - q[1]) + (p[2] - q[2]) * (p[2] - q[2])

\* distances < self.sigma
InNiche(d2) == 100 * d2 < sigma * sigma

\* (1 - d / sigma) ** fitness_alpha, fitness_alpha = 0.5, in Scale units
share(d2) ==
    LET ratio == Isqrt((Scale * Scale * 100 * d2) \div (sigma * sigma))
    IN  Isqrt(Scale * (Scale - ratio))

calc_beta(x, pop) ==
    SumSeq([j \in 1..Len(pop) |->
        LET d2 == calc_distance2(pop[x], pop[j])
        IN  IF InNiche(d2) THEN share(d2) ELSE 0])

\* mutant: the exponent np.sign(f) is left out, g = f * beta for every f
wrap_fitness_unsigned(x, pop) ==
    Objective(pop[x]) * calc_beta(x, pop)

\* lines 101-105: f * beta ** sign(f), in Scale units (beta is in Scale
\* units, f an integer)
wrap_fitness(x, pop) ==
    LET beta == calc_beta(x, pop)
        f == Objective(pop[x])
    IN  IF f > 0 THEN f * beta
        ELSE IF f < 0 THEN (f * Scale * Scale) \div beta
        ELSE 0

\* -------------------------------------------------------------- optimize
\* lines 16-25: k = 3, alpha = 0.05, sigma = 0.3 * intMax
Init ==
    /\ pc = "start"
    /\ k = 3
    /\ alpha = 5
    /\ sigma = 3 * intMax
    /\ objf \in ObjNames
    /\ population = <<>> /\ selected = <<>> /\ offspring = <<>>
    /\ joinedPopulation = <<>>
    /\ iter = 0 /\ ii = 0 /\ ri = <<>>
    /\ keep = lambdaa /\ survivors = <<>> /\ ei = 0
    /\ pool = <<>> /\ origin = <<>> /\ slots = <<>>
    /\ reports = 0
    /\ xi = 0 /\ out = <<>>

\* lines 31-33: initial population, first call of plotFun
Initialize ==
    /\ pc = "start"
    /\ population' \in [1..lambdaa -> Point]
    /\ reports' = reports + 1
    /\ pc' = "loop"
    /\ UNCHANGED <<k, alpha, sigma, objf, selected, offspring, joinedPopulation,
                   iter, ii, ri, keep, survivors, ei, pool, origin, slots, xi, out>>

\* mutant: one generation too many
LoopContinuesInclusive == iter <= numIters

\* line 34: range(self.numIters) has a next value
LoopContinues == iter < numIters

\* line 34, the loop continues; line 54 of the call of selection
EnterGeneration ==
    /\ pc = "loop"
    /\ LoopContinues
    /\ selected' = zeros(mu)
    /\ ii' = 0
    /\ pc' = "selection"
    /\ UNCHANGED <<k, alpha, sigma, objf, population, offspring, joinedPopulation,
                   iter, ri, keep, survivors, ei, pool, origin, slots, reports, xi, out>>

\* line 34, the loop is over; line 49
Finish ==
    /\ pc = "loop"
    /\ ~LoopContinues
    /\ pc' = "Done"
    /\ UNCHANGED <<k, alpha, sigma, objf, population, selected, offspring,
                   joinedPopulation, iter, ii, ri, keep, survivors, ei, pool,
                   origin, slots, reports, xi, out>>

\* np.argmin: the first position of the least value
argmin(g) == CHOOSE m \in 1..Len(g) :
    /\ \A j \in 1..Len(g) : g[m] <= g[j]
    /\ \A j \in 1..(m - 1) : g[j] > g[m]

\* random.choices(range(n), k=self.k): k draws with replacement
choices(n, kk) == [1..kk -> 1..n]

\* the winner of the tournament over the drawn indices r (lines 57-59)
winner(r, pop) ==
    LET g == [j \in 1..Len(r) |-> wrap_fitness(r[j], pop)]
    IN  pop[r[argmin(g)]]

\* lines 55-59, one iteration of selection's loop
SelectionStep ==
    /\ pc = "selection"
    /\ ii < mu
    /\ \E r \in choices(Len(population), k) :
          /\ ri' = r
          /\ selected' = [selected EXCEPT ![ii + 1] = winner(r, population)]
    /\ ii' = ii + 1
    /\ pc' = IF ii + 1 < mu THEN "selection" ELSE "crossover"
    /\ UNCHANGED <<k, alpha, sigma, objf, population, offspring, joinedPopulation,
                   iter, keep, survivors, ei, pool, origin, slots, reports, xi, out>>

\* mutant: the blend is not clipped
lcNoClip(x, y, w) == [c \in 1..2 |-> x[c] + w[c] * (y[c] - x[c])]

\* line 67
lc(x, y, w) == [c \in 1..2 |-> clip(x[c] + w[c] * (y[c] - x[c]), 0, intMax)]

\* lines 64-70 with the weights drawn at line 65
crossover(sel, weights) ==
    [j \in 1..lambdaa |-> lc(sel[2 * j - 1], sel[2 * j], weights[j])]

Crossover ==
    /\ pc = "crossover"
    /\ \E weights \in [1..lambdaa -> WeightSet \X WeightSet] :
          offspring' = crossover(selected, weights)
    /\ selected' = <<>>
    /\ ii' = 0
    /\ ri' = <<>>
    /\ pc' = "mutation"
    /\ UNCHANGED <<k, alpha, sigma, objf, population, joinedPopulation,
                   iter, keep, survivors, ei, pool, origin, slots, reports, xi, out>>

\* line 75: the rows whose uniform draw is <= alpha
mutated(u, a) == {j \in DOMAIN u : u[j] <= a}

\* lines 76-78 with the noise drawn at line 76 for the rows of line 75
mutation(off, u, a, noise) ==
    [j \in 1..Len(off) |->
        IF j \in mutated(u, a)
        THEN [c \in 1..2 |-> clip(off[j][c] + noise[j][c], 0, intMax)]
        ELSE off[j]]

\* mutant: the offspring are stacked twice, the population is left out
MutationOffspringOnly ==
    /\ pc = "mutation"
    /\ \E u \in [1..Len(offspring) -> UDraws] :
         \E noise \in [mutated(u, alpha) -> NoiseSet \X NoiseSet] :
            joinedPopulation' = mutation(offspring, u, alpha, noise) \o offspring
    /\ offspring' = <<>>
    /\ keep' = lambdaa
    /\ survivors' = zeros(lambdaa)
    /\ ei' = 0
    /\ pool' = joinedPopulation'
    /\ origin' = [j \in 1..Len(joinedPopulation') |-> j]
    /\ slots' = <<>>
    /\ pc' = "elimination"
    /\ UNCHANGED <<k, alpha, sigma, objf, population, selected, iter, ii, ri,
                   reports, xi, out>>

\* line 39, and lines 83-85 of the call of elimination at line 40
Mutation ==
    /\ pc = "mutation"
    /\ \E u \in [1..Len(offspring) -> UDraws] :
         \E noise \in [mutated(u, alpha) -> NoiseSet \X NoiseSet] :
            joinedPopulation' = mutation(offspring, u, alpha, noise) \o population
    /\ offspring' = <<>>
    /\ keep' = lambdaa
    /\ survivors' = zeros(lambdaa)
    /\ ei' = 0
    /\ pool' = joinedPopulation'
    /\ origin' = [j \in 1..Len(joinedPopulation') |-> j]
    /\ slots' = <<>>
    /\ pc' = "elimination"
    /\ UNCHANGED <<k, alpha, sigma, objf, population, selected, iter, ii, ri,
                   reports, xi, out>>

\* mutant: the reference set of a candidate is the candidate alone, the
\* survivors are not stacked under it
scoresNoSurvivors(jp, surv, i) ==
    IF i = 0
    THEN [x \in 1..Len(jp) |-> Objective(jp[x])]
    ELSE [x \in 1..Len(jp) |-> wrap_fitness(1, <<jp[x]>>)]

\* the values that rank the remaining pool in iteration i of elimination:
\* fvals (line 84) in iteration 0, g of the previous iteration (line 89) after
scores(jp, surv, i) ==
    IF i = 0
    THEN [x \in 1..Len(jp) |-> Objective(jp[x])]
    ELSE [x \in 1..Len(jp) |-> wrap_fitness(1, <<jp[x]>> \o SubSeq(surv, 1, i))]

\* np.argsort(v)[0]: a position of the least value (the sort is not stable)
perm0(v) == {m \in 1..Len(v) : \A j \in 1..Len(v) : v[m] <= v[j]}

\* lines 86-90, one iteration of elimination's loop
ElimStep ==
    /\ pc = "elimination"
    /\ ei < keep
    /\ \E p \in perm0(scores(joinedPopulation, survivors, ei)) :
          /\ survivors' = [survivors EXCEPT ![ei + 1] = joinedPopulation[p]]
          /\ joinedPopulation' = delete(joinedPopulation, p)
          /\ slots' = Append(slots, origin[p])
          /\ origin' = delete(origin, p)
    /\ ei' = ei + 1
    /\ UNCHANGED <<pc, k, alpha, sigma, objf, population, selected, offspring,
                   iter, ii, ri, keep, pool, reports, xi, out>>

\* line 91 and lines 40-48: the survivors become the population, plotFun
Report ==
    /\ pc = "elimination"
    /\ ei >= keep
    /\ population' = survivors
    /\ joinedPopulation' = <<>>
    /\ survivors' = <<>> /\ ei' = 0
    /\ pool' = <<>> /\ origin' = <<>> /\ slots' = <<>>
    /\ reports' = reports + 1
    /\ iter' = iter + 1
    /\ pc' = "loop"
    /\ UNCHANGED <<k, alpha, sigma, objf, selected, offspring, ii, ri, keep, xi, out>>

Next ==
    \/ Initialize
    \/ EnterGeneration
    \/ SelectionStep
    \/ Crossover
    \/ Mutation
    \/ ElimStep
    \/ Report
    \/ Finish

Spec == Init /\ [][Next]_vars

\* ------------------------------------------- stand-alone calls, any input
Pools == UNION {[1..n -> Point] : n \in 1..MaxPool}

\* selection(population) on any population, for any tournament size
InitSelection ==
    /\ pc = "selection"
    /\ k \in 1..MaxK
    /\ alpha = 5
    /\ sigma = 3 * intMax
    /\ objf \in ObjNames
    /\ population \in Pools
    /\ selected = zeros(mu)
    /\ offspring = <<>> /\ joinedPopulation = <<>>
    /\ iter = 0 /\ ii = 0 /\ ri = <<>>
    /\ keep = lambdaa /\ survivors = <<>> /\ ei = 0
    /\ pool = <<>> /\ origin = <<>> /\ slots = <<>>
    /\ reports = 0 /\ xi = 0 /\ out = <<>>

SpecSelection == InitSelection /\ [][SelectionStep]_vars

\* mutation(offspring, alpha) on any offspring, for any alpha
InitMutation ==
    /\ pc = "call_mutation"
    /\ k = 3
    /\ alpha \in AlphaSet
    /\ sigma = 3 * intMax
    /\ objf = "plane"
    /\ offspring \in Pools
    /\ population = <<>> /\ selected = <<>> /\ joinedPopulation = <<>>
    /\ iter = 0 /\ ii = 0 /\ ri = <<>>
    /\ keep = lambdaa /\ survivors = <<>> /\ ei = 0
    /\ pool = <<>> /\ origin = <<>> /\ slots = <<>>
    /\ reports = 0 /\ xi = 0 /\ out = <<>>

\* lines 74-78; offspring keeps the argument as it was passed
MutationCall ==
    /\ pc = "call_mutation"
    /\ \E u \in [1..Len(offspring) -> UDraws] :
         \E noise \in [mutated(u, alpha) -> NoiseSet \X NoiseSet] :
            out' = mutation(offspring, u, alpha, noise)
    /\ pc' = "returned"
    /\ UNCHANGED <<k, alpha, sigma, objf, population, selected, offspring,
                   joinedPopulation, iter, ii, ri, keep, survivors, ei, pool,
                   origin, slots, reports, xi>>

SpecMutation == InitMutation /\ [][MutationCall]_vars

\* elimination(joinedPopulation, keep) on any pool with keep <= its size
InitElimination ==
    /\ pc = "elimination"
    /\ k = 3
    /\ alpha = 5
    /\ sigma \in SigmaSet
    /\ objf \in ObjNames
    /\ joinedPopulation \in Pools
    /\ pool = joinedPopulation
    /\ origin = [j \in 1..Len(joinedPopulation) |-> j]
    /\ keep \in 0..Len(joinedPopulation)
    /\ survivors = zeros(keep)
    /\ population = <<>> /\ selected = <<>> /\ offspring = <<>>
    /\ iter = 0 /\ ii = 0 /\ ri = <<>>
    /\ ei = 0 /\ slots = <<>>
    /\ reports = 0 /\ xi = 0 /\ out = <<>>

\* line 91
ElimReturn ==
    /\ pc = "elimination"
    /\ ei >= keep
    /\ out' = survivors
    /\ pc' = "returned"
    /\ UNCHANGED <<k, alpha, sigma, objf, population, selected, offspring,
                   joinedPopulation, iter, ii, ri, keep, survivors, ei, pool,
                   origin, slots, reports, xi>>

NextElimination == ElimStep \/ ElimReturn

SpecElimination == InitElimination /\ [][NextElimination]_vars

\* wrap_fitness(x, population) on any reference population and any index
InitFitness ==
    /\ pc = "call_wrap_fitness"
    /\ k = 3
    /\ alpha = 5
    /\ sigma \in SigmaSet
    /\ objf \in ObjNames
    /\ population \in Pools
    /\ xi \in 1..Len(population)
    /\ selected = <<>> /\ offspring = <<>> /\ joinedPopulation = <<>>
    /\ iter = 0 /\ ii = 0 /\ ri = <<>>
    /\ keep = lambdaa /\ survivors = <<>> /\ ei = 0
    /\ pool = <<>> /\ origin = <<>> /\ slots = <<>>
    /\ reports = 0 /\ out = <<>>

\* lines 101-105, with the beta of line 102 and the f of line 103 kept
FitnessCall ==
    /\ pc = "call_wrap_fitness"
    /\ out' = [beta |-> calc_beta(xi, population),
               f |-> Objective(population[xi]),
               g |-> wrap_fitness(xi, population)]
    /\ pc' = "returned"
    /\ UNCHANGED <<k, alpha, sigma, objf, population, selected, offspring,
                   joinedPopulation, iter, ii, ri, keep, survivors, ei, pool,
                   origin, slots, reports, xi>>

SpecFitness == InitFitness /\ [][FitnessCall]_vars

\* ================================================================ claims
InDomain(s) == \A j \in DOMAIN s : s[j][1] \in Coord /\ s[j][2] \in Coord

\* the least raw objective value of a population (line 46, np.min(fvals))
BestObj(s) == MinOf({Objective(s[j]) : j \in DOMAIN s})

\* C1: in every state of optimize every coordinate of every individual of
\* the population (the array handed to plotFun), and of every intermediate
\* array of a generation, lies in [0, intMax].
C1_CoordinatesInDomain ==
    /\ InDomain(population)
    /\ InDomain(selected)
    /\ InDomain(offspring)
    /\ InDomain(joinedPopulation)
    /\ InDomain(survivors)

\* a population is being reported after a generation in which crossover or
\* mutation had to clip: the state after the last step of elimination whose
\* survivors hold a point on the upper edge that the old population lacks
C1_Witness ==
    /\ pc = "elimination" /\ ei = keep
    /\ \E j \in DOMAIN survivors :
          /\ survivors[j][1] = intMax
          /\ \A q \in DOMAIN population : population[q][1] < intMax

\* C2: the population has lambdaa individuals before and after every
\* generation; selection yields 2*lambdaa parents, crossover and mutation
\* lambdaa offspring, the pool has 2*lambdaa members and elimination leaves
\* lambdaa survivors.
C2_PopulationSizes ==
    /\ pc # "start" => Len(population) = lambdaa
    /\ pc \in {"selection", "crossover"} => Len(selected) = 2 * lambdaa
    /\ pc = "mutation" => Len(offspring) = lambdaa
    /\ pc = "elimination" =>
          /\ Len(pool) = 2 * lambdaa
          /\ Len(joinedPopulation) = 2 * lambdaa - ei
          /\ Len(survivors) = lambdaa
          /\ Len(slots) = ei
          /\ ei <= lambdaa

C2_Witness ==
    /\ pc = "loop" /\ iter = numIters
    /\ Len(population) = lambdaa

\* C3: the least raw objective value of the population after a generation
\* is at most the least raw objective value of the population before it.
C3_BestNeverWorse ==
    [][(pc = "elimination" /\ pc' = "loop")
          => BestObj(population') <= BestObj(population)]_vars

\* elimination has filled its survivors, which are about to replace a
\* population whose best value they improve on
C3_Witness ==
    /\ pc = "elimination" /\ ei = keep
    /\ BestObj(survivors) < BestObj(population)

\* the steps of optimize in their order
Order ==
    {<<"start", "loop">>, <<"loop", "selection">>, <<"selection", "crossover">>,
     <<"crossover", "mutation">>, <<"mutation", "elimination">>,
     <<"elimination", "loop">>, <<"loop", "Done">>}

\* steps of one generation: enter, mu tournaments, crossover, mutation,
\* lambdaa picks of elimination, report
GenSteps == mu + lambdaa + 4

\* the number of steps optimize still has to take
Rank ==
    LET later == 1 + (numIters - iter - 1) * GenSteps
    IN  CASE pc = "start" -> 2 + numIters * GenSteps
          [] pc = "loop" -> 1 + (numIters - iter) * GenSteps
          [] pc = "selection" -> later + (mu - ii) + lambdaa + 3
          [] pc = "crossover" -> later + lambdaa + 3
          [] pc = "mutation" -> later + lambdaa + 2
          [] pc = "elimination" -> later + (keep - ei) + 1
          [] OTHER -> 0

\* no step of a generation can fail: a tournament has a population to draw
\* from, a pick of elimination has a pool row to take (perm[0] exists)
NoStepFails ==
    /\ pc = "selection" => ii < mu /\ Len(population) > 0
    /\ pc = "crossover" => Len(selected) = 2 * lambdaa
    /\ pc = "elimination" /\ ei < keep => Len(joinedPopulation) > 0

\* C5: optimize runs exactly numIters generations and ends in Done, with
\* no early stop (every step is taken, and the number of steps left goes
\* down by one each step until it is 0 in Done); plotFun is called once
\* before the first generation and once after every generation; a
\* generation is select, crossover, mutate, union with the current
\* population, eliminate, in this order.
C5_Loop ==
    /\ [](pc # "start" => reports = iter + 1)
    /\ [](pc = "Done" <=> Rank = 0)
    /\ [](pc = "Done" => iter = numIters /\ reports = numIters + 1)
    /\ [](NoStepFails)
    /\ [][Rank' = Rank - 1]_vars
    /\ [][pc' # pc => <<pc, pc'>> \in Order]_vars
    /\ [][pc = "mutation"
             => SubSeq(joinedPopulation', lambdaa + 1, 2 * lambdaa) = population]_vars
    /\ [][iter' # iter => (iter' = iter + 1 /\ pc = "elimination" /\ ei = keep)]_vars

C5_Witness ==
    pc = "Done" /\ iter = numIters /\ reports = numIters + 1

\* C7: with a tournament size above the population size no generation
\* completes: the run stops with an error in the first call of selection.
C7_NoGenerationCompletes ==
    k > lambdaa => (iter = 0 /\ pc # "Done")

\* shared fitness of candidate c against the reference set made of c and
\* the survivors chosen so far
sharedAgainst(c, chosen) == wrap_fitness(1, <<c>> \o chosen)

Distinct(s) == \A a, b \in DOMAIN s : a # b => s[a] # s[b]

\* C4: for a pool with at least keep members elimination returns exactly
\* keep survivors, each taken from a different slot of the pool it was
\* given.
C4_KeepDistinctSlots ==
    pc \in {"elimination", "returned"} =>
        /\ Len(slots) = ei
        /\ Distinct(slots)
        /\ \A j \in 1..ei : slots[j] \in DOMAIN pool /\ survivors[j] = pool[slots[j]]
        /\ ei < keep => Len(joinedPopulation) > 0
        /\ pc = "returned" => ei = keep /\ Len(out) = keep /\ out = survivors

\* elimination returned two equal individuals, taken from two slots
C4_Witness ==
    /\ pc = "returned" /\ keep >= 2 /\ keep < Len(pool)
    /\ out[1] = out[2]
    /\ slots[1] # slots[2]

\* C9: survivor 0 has the least raw objective value of the pool; survivor
\* i >= 1 has, among the pool members not chosen before it, the least
\* shared fitness against the reference set made of the candidate alone
\* and survivors 0..i-1.
C9_GreedyOrder ==
    pc \in {"elimination", "returned"} =>
        \A j \in 1..ei :
            LET chosen == SubSeq(survivors, 1, j - 1)
                before == {slots[q] : q \in 1..(j - 1)}
            IN  \A r \in DOMAIN pool \ before :
                    IF j = 1
                    THEN Objective(survivors[1]) <= Objective(pool[r])
                    ELSE sharedAgainst(survivors[j], chosen)
                             <= sharedAgainst(pool[r], chosen)

\* sharing decided a pick: the second survivor has a worse raw value but a
\* better shared fitness than a pool member that was left behind
C9_Witness ==
    /\ pc = "returned" /\ keep = 2
    /\ \E r \in DOMAIN pool :
          /\ r \notin {slots[1], slots[2]}
          /\ Objective(pool[r]) < Objective(survivors[2])
          /\ sharedAgainst(pool[r], <<survivors[1]>>)
                > sharedAgainst(survivors[2], <<survivors[1]>>)

\* C10: the niche count is at least 1 and the shared fitness is never below
\* the raw fitness: g = f*beta for f > 0, g = f/beta (rounded down) for
\* f < 0, g = 0 for f = 0; against the individual alone beta = 1 and g = f.
C10_SharedNeverBetter ==
    pc = "returned" /\ xi > 0 =>
        /\ out.beta >= Scale
        /\ out.g >= out.f * Scale
        /\ out.f > 0 => out.g = out.f * out.beta
        /\ out.f < 0 => /\ out.g * out.beta <= out.f * Scale * Scale
                        /\ (out.g + 1) * out.beta > out.f * Scale * Scale
        /\ out.f = 0 => out.g = 0
        /\ Len(population) = 1 => out.beta = Scale /\ out.g = out.f * Scale

\* a negative raw fitness shared with a neighbour that is inside the niche
\* at a distance above 0
C10_Witness ==
    /\ pc = "returned" /\ xi > 0
    /\ out.f < 0
    /\ out.beta > Scale /\ out.beta < 2 * Scale
    /\ out.g > out.f * Scale

\* C6: the k candidate indices of one tournament are pairwise distinct
\* members of the population.
C6_DistinctCandidates ==
    (k <= Len(population) /\ ri # <<>>) =>
        /\ \A j \in DOMAIN ri : ri[j] \in DOMAIN population
        /\ Distinct(ri)

\* C8: with alpha = 0 mutation returns every offspring unchanged, whatever
\* the uniform draws are.
C8_ZeroAlphaUnchanged ==
    (pc = "returned" /\ alpha = 0) => out = offspring

====
